---- MODULE Spec2Model ----
(* Round & progress engine of learn-countries (src/composables/useGameState.ts),
   with the dataset loads it issues kept in flight until they complete. *)
EXTENDS Integers, Sequences, FiniteSets, TLC

\* ---------------------------------------------------------------- bounds
\* Largest number of dataset loads in flight at the same time.
MaxPending == 2

\* ---------------------------------------------------------------- values
Null == "null"

Stage == {"name", "flag", "capital"}

\* ---------------------------------------------------------------- catalog
\* Map configurations (MapConfig): a countries map, a second countries map
\* sharing a code with the first, a feature-collection map, and a
\* feature-collection entry that lacks its url and keys.
MapIds == {"europe", "custom", "fr-regions", "geo-unconfigured"}

MAPS ==
  [m \in MapIds |->
     CASE m = "europe" ->
            [kind |-> "countries", codes |-> {"FR", "DE"}, cacheKey |-> "europe-cache",
             supportsFlags |-> TRUE, supportsCapitals |-> TRUE, geojsonConfig |-> FALSE]
       [] m = "custom" ->
            [kind |-> "countries", codes |-> {"DE"}, cacheKey |-> "custom-cache",
             supportsFlags |-> TRUE, supportsCapitals |-> TRUE, geojsonConfig |-> FALSE]
       [] m = "fr-regions" ->
            [kind |-> "geojson", codes |-> {"R1"}, cacheKey |-> "fr-regions-cache",
             supportsFlags |-> FALSE, supportsCapitals |-> FALSE, geojsonConfig |-> TRUE]
       [] OTHER ->
            [kind |-> "geojson", codes |-> {}, cacheKey |-> "geo-unconfigured-cache",
             supportsFlags |-> FALSE, supportsCapitals |-> FALSE, geojsonConfig |-> FALSE]]

\* CountryInfo, reduced to the two optional fields the engine reads.
CountryInfo == [flagUrl : BOOLEAN, capitalLatLng : BOOLEAN]

\* The records a data provider can resolve a load of map m to.  A countries
\* map yields records of its requested codes; an entity may lack capital
\* coordinates.  A feature-collection map yields areas with neither field.
ProviderResults(m) ==
  CASE m = "europe" ->
         {[c \in {"FR", "DE"} |->
             IF c = "FR" THEN [flagUrl |-> TRUE, capitalLatLng |-> TRUE]
                         ELSE [flagUrl |-> TRUE, capitalLatLng |-> FALSE]]}
    [] m = "custom" ->
         {[c \in {"DE"} |-> [flagUrl |-> TRUE, capitalLatLng |-> TRUE]]}
    [] OTHER ->
         {[c \in {"R1"} |-> [flagUrl |-> FALSE, capitalLatLng |-> FALSE]]}

\* ---------------------------------------------------------------- state
VARIABLES
  catalog,                \* ids of the maps the session can switch between
  mounted,                \* onMounted has run
  activeMap,              \* id of activeMap
  pending,                \* loads in flight: sequence of fetch requests
  loading, errorMessage, countries,
  flagsEnabled, capitalsEnabled,
  settings,               \* localStorage entry SETTINGS_KEY
  targetCode, selectedCode, reveal, isCorrect, stage,
  foundCodes, failedCodes,
  progressByCode, remainingStagesByCode

vars == <<catalog, mounted, activeMap, pending, loading, errorMessage, countries,
          flagsEnabled, capitalsEnabled, settings,
          targetCode, selectedCode, reveal, isCorrect, stage,
          foundCodes, failedCodes, progressByCode, remainingStagesByCode>>

sessionVars == <<targetCode, selectedCode, reveal, isCorrect, stage>>
entityVars == <<foundCodes, failedCodes, progressByCode, remainingStagesByCode>>
toggleVars == <<flagsEnabled, capitalsEnabled, settings>>
loadVars == <<catalog, mounted, activeMap, pending, loading, errorMessage, countries>>

\* The data services behind loadMap (countryApi.ts, geojsonAreas.ts).
VARIABLES
  cache,                  \* localStorage entries of the cache keys
  calls,                  \* service calls in flight, each awaiting a response
  settled                 \* the call that settled last, with what it returned

serviceVars == <<cache, calls, settled>>

\* The presentation adapter (EuropeMap.vue): the outline layer it built, and the
\* outcome of the last click it handled.
VARIABLES geoLayer, emitted

adapterVars == <<geoLayer, emitted>>

allVars == <<vars, serviceVars, adapterVars>>

\* No outline layer yet (the outline fetch is pending), no click handled.
AdapterIdle ==
  /\ geoLayer = [built |-> FALSE, clickable |-> {}]
  /\ emitted = [source |-> "none", code |-> Null, forwarded |-> FALSE]

\* The maps whose load reaches a data service, and their cache keys.
ServiceMaps == {m \in MapIds : MAPS[m].kind = "countries" \/ MAPS[m].geojsonConfig}
CacheKeys == {MAPS[m].cacheKey : m \in ServiceMaps}

NoData == [c \in {} |-> [flagUrl |-> FALSE, capitalLatLng |-> FALSE]]

\* A localStorage entry: nothing stored, a text JSON.parse rejects (or parses
\* to a falsy value), or the text writeCache stored for a result.
MissingEntry == [raw |-> "missing", data |-> NoData]
CorruptEntry == [raw |-> "corrupt", data |-> NoData]

\* No call has settled yet.
NothingSettled ==
  [fn |-> "none", cacheKey |-> "none", codes |-> {}, contacted |-> <<>>,
   status |-> "none", source |-> "none", value |-> NoData, error |-> ""]

\* The services as the engine's sessions leave them: the engine's loads are
\* resumed by LoadSuccess and LoadFailure with what a service settles to.
ServicesIdle ==
  /\ cache = [k \in CacheKeys |-> MissingEntry]
  /\ calls = <<>>
  /\ settled = NothingSettled

\* ---------------------------------------------------------------- settings
\* readSettings: the parsed record, or null for a missing or unparsable entry.
readSettings(entry) ==
  IF entry.raw = "json"
    THEN [flagsEnabled |-> entry.flagsEnabled, capitalsEnabled |-> entry.capitalsEnabled]
    ELSE [flagsEnabled |-> FALSE, capitalsEnabled |-> FALSE]

\* Mutant: the two fields are stored under each other's name.
writeSettings_swapsFields(f, c) == [raw |-> "json", flagsEnabled |-> c, capitalsEnabled |-> f]

\* writeSettings: the entry after JSON.stringify of the pair.
writeSettings(f, c) == [raw |-> "json", flagsEnabled |-> f, capitalsEnabled |-> c]

SettingsEntries ==
  {[raw |-> "missing", flagsEnabled |-> FALSE, capitalsEnabled |-> FALSE],
   [raw |-> "corrupt", flagsEnabled |-> FALSE, capitalsEnabled |-> FALSE]}
  \cup {writeSettings(f, c) : f \in BOOLEAN, c \in BOOLEAN}

\* ---------------------------------------------------------------- helpers
Range(s) == {s[i] : i \in 1..Len(s)}

RemoveAt(s, i) == SubSeq(s, 1, i - 1) \o SubSeq(s, i + 1, Len(s))

Swap(s, i, j) == [s EXCEPT ![i] = s[j], ![j] = s[i]]

\* The codes of the features the maps of the catalog draw: what a click can select.
Codes == UNION {MAPS[m].codes : m \in MapIds}

\* flagsActive / capitalsActive for map m under the toggles f and c.
flagsActive(m, f) == f /\ MAPS[m].supportsFlags
capitalsActive(m, c) == c /\ MAPS[m].supportsCapitals

\* The values the stage helpers read: the snapshot and the two active flags.
Env(cs, m, f, c) ==
  [countries |-> cs, flagsActive |-> flagsActive(m, f), capitalsActive |-> capitalsActive(m, c)]

hasFlagUrl(cs, code) == code \in DOMAIN cs /\ cs[code].flagUrl
hasCapitalLatLng(cs, code) == code \in DOMAIN cs /\ cs[code].capitalLatLng

NewProgress == [name |-> FALSE, flag |-> FALSE, capital |-> FALSE]

\* Mutant: every access starts the entry afresh.
getProgress_resetsEntry(prog, code) ==
  [c \in DOMAIN prog \cup {code} |-> IF c = code THEN NewProgress ELSE prog[c]]

\* getProgress: the Progress map after the create-on-first-access.
getProgress(prog, code) ==
  IF code \in DOMAIN prog THEN prog
  ELSE [c \in DOMAIN prog \cup {code} |-> IF c = code THEN NewProgress ELSE prog[c]]

\* Mutant: the entity's data is not consulted.
getAvailableStages_ignoresData(env, code) ==
  <<"name">>
  \o (IF env.flagsActive THEN <<"flag">> ELSE <<>>)
  \o (IF env.capitalsActive THEN <<"capital">> ELSE <<>>)

getAvailableStages(env, code) ==
  <<"name">>
  \o (IF env.flagsActive /\ hasFlagUrl(env.countries, code) THEN <<"flag">> ELSE <<>>)
  \o (IF env.capitalsActive /\ hasCapitalLatLng(env.countries, code) THEN <<"capital">> ELSE <<>>)

isStageComplete(progress, stageValue) == progress[stageValue]

isCodeComplete(env, code, progress) ==
  LET hasFlag == env.flagsActive /\ hasFlagUrl(env.countries, code)
      hasCapital == env.capitalsActive /\ hasCapitalLatLng(env.countries, code)
  IN progress.name /\ (~hasFlag \/ progress.flag) /\ (~hasCapital \/ progress.capital)

\* shuffleStages: every outcome of the swap loop, index running from the last
\* position down to the second, swapIndex drawn from the positions up to index.
RECURSIVE shuffleFrom(_, _)
shuffleFrom(result, index) ==
  IF index < 2 THEN {result}
  ELSE UNION {shuffleFrom(Swap(result, index, swapIndex), index - 1) : swapIndex \in 1..index}

shuffleStages(stages) == shuffleFrom(stages, Len(stages))

SetQueue(rem, code, q) ==
  [c \in DOMAIN rem \cup {code} |-> IF c = code THEN q ELSE rem[c]]

\* Mutant: stages already done are not filtered out of the queue.
syncRemainingStages_keepsDone(env, code, progress, rem) ==
  LET available == getAvailableStages(env, code)
      existing == IF code \in DOMAIN rem THEN rem[code] ELSE <<>>
      filteredExisting == SelectSeq(existing, LAMBDA stageValue : stageValue \in Range(available))
      missing == SelectSeq(available, LAMBDA stageValue : stageValue \notin Range(filteredExisting))
  IN {filteredExisting \o shuffled : shuffled \in shuffleStages(missing)}

\* syncRemainingStages: the queues it can store for code.
syncRemainingStages(env, code, progress, rem) ==
  LET available == SelectSeq(getAvailableStages(env, code),
                          LAMBDA stageValue : ~isStageComplete(progress, stageValue))
      existing == IF code \in DOMAIN rem THEN rem[code] ELSE <<>>
      filteredExisting == SelectSeq(existing, LAMBDA stageValue : stageValue \in Range(available))
      missing == SelectSeq(available, LAMBDA stageValue : stageValue \notin Range(filteredExisting))
  IN {filteredExisting \o shuffled : shuffled \in shuffleStages(missing)}

\* Mutant: the queue is not consulted, the applicable stages are reshuffled on
\* every call.
getStageForCode_alwaysReshuffles(env, code, prog, rem) ==
  LET prog1 == getProgress(prog, code)
  IN {[progress |-> prog1, remaining |-> SetQueue(rem, code, refreshed),
       stage |-> refreshed[1]] :
        refreshed \in shuffleStages(getAvailableStages(env, code))}

\* getStageForCode: the (Progress map, queue map, returned stage) outcomes.
getStageForCode(env, code, prog, rem) ==
  LET prog1 == getProgress(prog, code)
      synced == syncRemainingStages(env, code, prog1[code], rem)
  IN UNION {
       IF Len(remainingStages) = 0
         THEN {[progress |-> prog1, remaining |-> SetQueue(rem, code, refreshed),
                stage |-> refreshed[1]] :
                 refreshed \in shuffleStages(getAvailableStages(env, code))}
         ELSE {[progress |-> prog1, remaining |-> SetQueue(rem, code, remainingStages),
                stage |-> remainingStages[1]]}
       : remainingStages \in synced}

\* Mutant: failed codes stay in the pool.
availableCodes_ignoresFailed(cs, found, failed) == {code \in DOMAIN cs : code \notin found}

\* The candidate pool of pickNewTarget.
availableCodes(cs, found, failed) == {code \in DOMAIN cs : code \notin found /\ code \notin failed}

\* Mutant: the new round keeps the verdict of the last one.
pickNewTarget_keepsVerdict(env, found, failed, s, prog, rem) ==
  LET pool == availableCodes(env.countries, found, failed)
  IN IF pool = {}
       THEN {[targetCode |-> s.targetCode, selectedCode |-> s.selectedCode,
              reveal |-> s.reveal, isCorrect |-> s.isCorrect, stage |-> s.stage,
              progress |-> prog, remaining |-> rem]}
       ELSE UNION {
              {[targetCode |-> nextCode, selectedCode |-> Null, reveal |-> FALSE,
                isCorrect |-> s.isCorrect, stage |-> r.stage,
                progress |-> r.progress, remaining |-> r.remaining] :
                 r \in getStageForCode(env, nextCode, prog, rem)}
              : nextCode \in pool}

\* Mutant: with an empty pool the session is cleared.
pickNewTarget_clearsWhenEmpty(env, found, failed, s, prog, rem) ==
  LET pool == availableCodes(env.countries, found, failed)
  IN IF pool = {}
       THEN {[targetCode |-> Null, selectedCode |-> Null,
              reveal |-> FALSE, isCorrect |-> Null, stage |-> "name",
              progress |-> prog, remaining |-> rem]}
       ELSE UNION {
              {[targetCode |-> nextCode, selectedCode |-> Null, reveal |-> FALSE,
                isCorrect |-> Null, stage |-> r.stage,
                progress |-> r.progress, remaining |-> r.remaining] :
                 r \in getStageForCode(env, nextCode, prog, rem)}
              : nextCode \in pool}

\* pickNewTarget on the session s (targetCode, selectedCode, reveal, isCorrect,
\* stage) and the maps prog / rem: every outcome it can leave.
pickNewTarget(env, found, failed, s, prog, rem) ==
  LET pool == availableCodes(env.countries, found, failed)
  IN IF pool = {}
       THEN {[targetCode |-> s.targetCode, selectedCode |-> s.selectedCode,
              reveal |-> s.reveal, isCorrect |-> s.isCorrect, stage |-> s.stage,
              progress |-> prog, remaining |-> rem]}
       ELSE UNION {
              {[targetCode |-> nextCode, selectedCode |-> Null, reveal |-> FALSE,
                isCorrect |-> Null, stage |-> r.stage,
                progress |-> r.progress, remaining |-> r.remaining] :
                 r \in getStageForCode(env, nextCode, prog, rem)}
              : nextCode \in pool}

\* Mutant: an entity counts as found as soon as its name is done.
refreshFoundCodes_nameOnly(env, prog) ==
  {code \in DOMAIN prog : prog[code].name}

refreshFoundCodes(env, prog) ==
  {code \in DOMAIN prog : isCodeComplete(env, code, prog[code])}

Session == [targetCode |-> targetCode, selectedCode |-> selectedCode, reveal |-> reveal,
            isCorrect |-> isCorrect, stage |-> stage]

ClearedSession == [targetCode |-> Null, selectedCode |-> Null, reveal |-> FALSE,
                   isCorrect |-> Null, stage |-> "name"]

CurrentEnv == Env(countries, activeMap, flagsEnabled, capitalsEnabled)

EmptyMap == [c \in {} |-> NewProgress]

\* progressByCode.get(code)?.[s]: stage s is marked done for code.
Done(prog, code, s) == code \in DOMAIN prog /\ prog[code][s]

\* The per-category totals and scores shown with the round.
nameTotal == Cardinality(DOMAIN countries)

flagTotal == Cardinality({code \in DOMAIN countries : countries[code].flagUrl})

capitalTotal == Cardinality({code \in DOMAIN countries : countries[code].capitalLatLng})

nameScore == Cardinality({code \in DOMAIN progressByCode : progressByCode[code].name})

flagScore ==
  Cardinality({code \in DOMAIN countries :
                 countries[code].flagUrl /\ Done(progressByCode, code, "flag")})

capitalScore ==
  Cardinality({code \in DOMAIN countries :
                 countries[code].capitalLatLng /\ Done(progressByCode, code, "capital")})

\* Mutant: a load error does not disable the action.
actionDisabled_ignoresError ==
  IF loading THEN TRUE
  ELSE IF reveal THEN FALSE
  ELSE selectedCode = Null

actionDisabled ==
  IF loading \/ errorMessage # "" THEN TRUE
  ELSE IF reveal THEN FALSE
  ELSE selectedCode = Null

\* ---------------------------------------------------------------- initial state
\* The state useGameState returns to its caller, mounted or not yet.
Setup ==
  /\ settings \in SettingsEntries
  /\ mounted = FALSE
  /\ activeMap = "europe"
  /\ pending = <<>>
  /\ loading = TRUE
  /\ errorMessage = ""
  /\ countries = EmptyMap
  /\ flagsEnabled = readSettings(settings).flagsEnabled
  /\ capitalsEnabled = readSettings(settings).capitalsEnabled
  /\ targetCode = Null
  /\ selectedCode = Null
  /\ reveal = FALSE
  /\ isCorrect = Null
  /\ stage = "name"
  /\ foundCodes = {}
  /\ failedCodes = {}
  /\ progressByCode = EmptyMap
  /\ remainingStagesByCode = EmptyMap

\* A session over the two countries maps, started on EUROPE_MAP.
Init ==
  /\ catalog = {"europe", "custom"}
  /\ Setup
  /\ ServicesIdle
  /\ AdapterIdle

\* ---------------------------------------------------------------- actions
SetSession(r) ==
  /\ targetCode' = r.targetCode
  /\ selectedCode' = r.selectedCode
  /\ reveal' = r.reveal
  /\ isCorrect' = r.isCorrect
  /\ stage' = r.stage

\* Mutant: the selection is taken on a revealed round too.
HandleGuess_ignoresReveal(code) ==
  /\ mounted
  /\ code \in UNION {MAPS[m].codes : m \in catalog}
  /\ selectedCode' = code
  /\ UNCHANGED <<loadVars, toggleVars, entityVars, targetCode, reveal, isCorrect, stage>>
  /\ UNCHANGED <<serviceVars, adapterVars>>

\* handleGuess(code)
HandleGuess(code) ==
  /\ mounted
  /\ code \in UNION {MAPS[m].codes : m \in catalog}
  /\ IF reveal THEN UNCHANGED selectedCode ELSE selectedCode' = code
  /\ UNCHANGED <<loadVars, toggleVars, entityVars, targetCode, reveal, isCorrect, stage>>
  /\ UNCHANGED <<serviceVars, adapterVars>>

\* Mutant: any selection counts as the target.
isCorrectGuess_anySelection(selected, target) == selected # Null

\* Mutant: the comparison is inverted.
isCorrectGuess_inverted(selected, target) == selected # target

\* confirmGuess, the comparison of the selection with the target.
isCorrectGuess(selected, target) == selected = target

\* Mutant: marking a stage rebuilds the Progress with only that stage done.
markStageDone_resetsOthers(progress, stageValue) ==
  [name |-> stageValue = "name", flag |-> stageValue = "flag", capital |-> stageValue = "capital"]

\* confirmGuess, the branch on stage.value: the Progress with the stage marked.
markStageDone(progress, stageValue) ==
  IF ~progress[stageValue] THEN [progress EXCEPT ![stageValue] = TRUE] ELSE progress

\* Mutant: the answered stage stays in the queue.
removeStage_keepsQueue(remainingStages, stageValue) == remainingStages

\* confirmGuess, the queue without the stage just answered.
removeStage(remainingStages, stageValue) ==
  SelectSeq(remainingStages, LAMBDA s : s # stageValue)

\* Mutant: a wrong guess is not recorded in failedCodes.
confirmGuess_forgetsFailure(env, s, found, failed, prog, rem) ==
  IF s.selectedCode = Null \/ s.targetCode = Null
    THEN [reveal |-> s.reveal, isCorrect |-> s.isCorrect, foundCodes |-> found,
          failedCodes |-> failed, progress |-> prog, remaining |-> rem]
  ELSE IF isCorrectGuess(s.selectedCode, s.targetCode)
    THEN LET prog1 == getProgress(prog, s.targetCode)
             prog2 == [prog1 EXCEPT ![s.targetCode] = markStageDone(@, s.stage)]
             rem2 == IF s.targetCode \in DOMAIN rem
                       THEN [rem EXCEPT ![s.targetCode] = removeStage(@, s.stage)]
                       ELSE rem
         IN [reveal |-> TRUE, isCorrect |-> "true",
             foundCodes |-> IF isCodeComplete(env, s.targetCode, prog2[s.targetCode])
                              THEN found \cup {s.targetCode} ELSE found,
             failedCodes |-> failed, progress |-> prog2, remaining |-> rem2]
  ELSE [reveal |-> TRUE, isCorrect |-> "false", foundCodes |-> found,
        failedCodes |-> failed, progress |-> prog, remaining |-> rem]

\* confirmGuess: the state it leaves, as a record.
confirmGuess(env, s, found, failed, prog, rem) ==
  IF s.selectedCode = Null \/ s.targetCode = Null
    THEN [reveal |-> s.reveal, isCorrect |-> s.isCorrect, foundCodes |-> found,
          failedCodes |-> failed, progress |-> prog, remaining |-> rem]
  ELSE IF isCorrectGuess(s.selectedCode, s.targetCode)
    THEN LET prog1 == getProgress(prog, s.targetCode)
             prog2 == [prog1 EXCEPT ![s.targetCode] = markStageDone(@, s.stage)]
             rem2 == IF s.targetCode \in DOMAIN rem
                       THEN [rem EXCEPT ![s.targetCode] = removeStage(@, s.stage)]
                       ELSE rem
         IN [reveal |-> TRUE, isCorrect |-> "true",
             foundCodes |-> IF isCodeComplete(env, s.targetCode, prog2[s.targetCode])
                              THEN found \cup {s.targetCode} ELSE found,
             failedCodes |-> failed, progress |-> prog2, remaining |-> rem2]
  ELSE [reveal |-> TRUE, isCorrect |-> "false", foundCodes |-> found,
        failedCodes |-> failed \cup {s.targetCode}, progress |-> prog, remaining |-> rem]

\* handlePrimaryAction (also the handler of the space key)
HandlePrimaryAction ==
  /\ mounted
  /\ IF actionDisabled
       THEN UNCHANGED <<sessionVars, entityVars>>
     ELSE IF reveal
       THEN /\ \E r \in pickNewTarget(CurrentEnv, foundCodes, failedCodes, Session,
                                      progressByCode, remainingStagesByCode) :
                 /\ SetSession(r)
                 /\ progressByCode' = r.progress
                 /\ remainingStagesByCode' = r.remaining
            /\ UNCHANGED <<foundCodes, failedCodes>>
       ELSE LET r == confirmGuess(CurrentEnv, Session, foundCodes, failedCodes,
                                  progressByCode, remainingStagesByCode)
            IN /\ reveal' = r.reveal
               /\ isCorrect' = r.isCorrect
               /\ foundCodes' = r.foundCodes
               /\ failedCodes' = r.failedCodes
               /\ progressByCode' = r.progress
               /\ remainingStagesByCode' = r.remaining
               /\ UNCHANGED <<targetCode, selectedCode, stage>>
  /\ UNCHANGED <<loadVars, toggleVars>>
  /\ UNCHANGED <<serviceVars, adapterVars>>

\* Mutant: the reset keeps the Progress map.
ResetGame_keepsProgress ==
  /\ mounted
  /\ foundCodes' = {}
  /\ failedCodes' = {}
  /\ \E r \in pickNewTarget(CurrentEnv, {}, {}, ClearedSession, progressByCode, EmptyMap) :
       /\ SetSession(r)
       /\ progressByCode' = r.progress
       /\ remainingStagesByCode' = r.remaining
  /\ UNCHANGED <<loadVars, toggleVars>>
  /\ UNCHANGED <<serviceVars, adapterVars>>

\* resetGame
ResetGame ==
  /\ mounted
  /\ foundCodes' = {}
  /\ failedCodes' = {}
  /\ \E r \in pickNewTarget(CurrentEnv, {}, {}, ClearedSession, EmptyMap, EmptyMap) :
       /\ SetSession(r)
       /\ progressByCode' = r.progress
       /\ remainingStagesByCode' = r.remaining
  /\ UNCHANGED <<loadVars, toggleVars>>
  /\ UNCHANGED <<serviceVars, adapterVars>>

\* Mutant: the reset forgets to empty failedCodes.
resetProgress_keepsFailed ==
  /\ SetSession(ClearedSession)
  /\ foundCodes' = {}
  /\ failedCodes' = failedCodes
  /\ progressByCode' = EmptyMap
  /\ remainingStagesByCode' = EmptyMap

\* resetProgress
resetProgress ==
  /\ SetSession(ClearedSession)
  /\ foundCodes' = {}
  /\ failedCodes' = {}
  /\ progressByCode' = EmptyMap
  /\ remainingStagesByCode' = EmptyMap

\* The fetch loadMap(next) awaits: fetchGeojsonAreas for a feature-collection
\* map, fetchCountries(next.codes, next.cacheKey) otherwise.
FetchRequest(next) ==
  [map |-> next,
   call |-> IF MAPS[next].kind = "geojson" THEN "fetchGeojsonAreas" ELSE "fetchCountries",
   codes |-> MAPS[next].codes,
   cacheKey |-> MAPS[next].cacheKey]

\* Mutant: the missing url and keys are not checked, the fetch is attempted.
loadMap_ignoresMissingConfig(next) ==
  LET f == IF MAPS[next].supportsFlags THEN flagsEnabled ELSE FALSE
      c == IF MAPS[next].supportsCapitals THEN capitalsEnabled ELSE FALSE
  IN /\ Len(pending) < MaxPending
     /\ countries' = EmptyMap
     /\ resetProgress
     /\ flagsEnabled' = f
     /\ capitalsEnabled' = c
     /\ settings' = IF f # flagsEnabled \/ c # capitalsEnabled
                      THEN writeSettings(f, c) ELSE settings
     /\ errorMessage' = ""
     /\ loading' = TRUE
     /\ pending' = Append(pending, FetchRequest(next))

\* Mutant: a toggle forced off is not written to the settings entry.
loadMap_skipsPersist(next) ==
  LET f == IF MAPS[next].supportsFlags THEN flagsEnabled ELSE FALSE
      c == IF MAPS[next].supportsCapitals THEN capitalsEnabled ELSE FALSE
      missingConfig == MAPS[next].kind = "geojson" /\ ~MAPS[next].geojsonConfig
  IN /\ Len(pending) < MaxPending
     /\ countries' = EmptyMap
     /\ resetProgress
     /\ flagsEnabled' = f
     /\ capitalsEnabled' = c
     /\ settings' = settings
     /\ IF missingConfig
          THEN /\ errorMessage' = "Missing geojson config."
               /\ loading' = FALSE
               /\ pending' = pending
          ELSE /\ errorMessage' = ""
               /\ loading' = TRUE
               /\ pending' = Append(pending, FetchRequest(next))

\* loadMap(next) up to its await.  A toggle it forces off queues the toggle
\* watcher, which is flushed before the load resumes: with no target it only
\* writes the settings.
loadMap(next) ==
  LET f == IF MAPS[next].supportsFlags THEN flagsEnabled ELSE FALSE
      c == IF MAPS[next].supportsCapitals THEN capitalsEnabled ELSE FALSE
      missingConfig == MAPS[next].kind = "geojson" /\ ~MAPS[next].geojsonConfig
  IN /\ Len(pending) < MaxPending
     /\ countries' = EmptyMap
     /\ resetProgress
     /\ flagsEnabled' = f
     /\ capitalsEnabled' = c
     /\ settings' = IF f # flagsEnabled \/ c # capitalsEnabled
                      THEN writeSettings(f, c) ELSE settings
     /\ IF missingConfig
          THEN /\ errorMessage' = "Missing geojson config."
               /\ loading' = FALSE
               /\ pending' = pending
          ELSE /\ errorMessage' = ""
               /\ loading' = TRUE
               /\ pending' = Append(pending, FetchRequest(next))

\* onMounted
OnMounted ==
  /\ ~mounted
  /\ mounted' = TRUE
  /\ loadMap(activeMap)
  /\ UNCHANGED <<catalog, activeMap>>
  /\ UNCHANGED <<serviceVars, adapterVars>>

\* watch(activeMap.id): the active map becomes next
WatchActiveMap(next) ==
  /\ mounted
  /\ next \in catalog
  /\ next # activeMap
  /\ activeMap' = next
  /\ loadMap(next)
  /\ UNCHANGED <<catalog, mounted>>
  /\ UNCHANGED <<serviceVars, adapterVars>>

\* loadMap resumed by the fulfilment of its fetch number i with data
LoadSuccess(i, data) ==
  /\ i \in 1..Len(pending)
  /\ data \in ProviderResults(pending[i].map)
  /\ pending' = RemoveAt(pending, i)
  /\ countries' = data
  /\ \E r \in pickNewTarget(Env(data, activeMap, flagsEnabled, capitalsEnabled),
                            foundCodes, failedCodes, Session,
                            progressByCode, remainingStagesByCode) :
       /\ SetSession(r)
       /\ progressByCode' = r.progress
       /\ remainingStagesByCode' = r.remaining
  /\ loading' = FALSE
  /\ UNCHANGED <<catalog, mounted, activeMap, errorMessage, toggleVars, foundCodes, failedCodes>>
  /\ UNCHANGED <<serviceVars, adapterVars>>

FetchError(call) ==
  IF call = "fetchGeojsonAreas" THEN "Failed to load area data." ELSE "Failed to load country data."

\* loadMap resumed by the rejection of its fetch number i
LoadFailure(i) ==
  /\ i \in 1..Len(pending)
  /\ pending' = RemoveAt(pending, i)
  /\ errorMessage' = FetchError(pending[i].call)
  /\ loading' = FALSE
  /\ UNCHANGED <<catalog, mounted, activeMap, countries, toggleVars, sessionVars, entityVars>>
  /\ UNCHANGED <<serviceVars, adapterVars>>

\* Mutant: the toggles watcher reopens the round whether or not its stage is
\* still applicable.
WatchToggles_alwaysReopens(f, c) ==
  /\ mounted
  /\ <<f, c>> # <<flagsEnabled, capitalsEnabled>>
  /\ flagsEnabled' = f
  /\ capitalsEnabled' = c
  /\ settings' = writeSettings(f, c)
  /\ LET env == Env(countries, activeMap, f, c)
     IN /\ foundCodes' = refreshFoundCodes(env, progressByCode)
        /\ IF targetCode = Null
             THEN UNCHANGED <<sessionVars, progressByCode, remainingStagesByCode>>
             ELSE \E g \in getStageForCode(env, targetCode, progressByCode,
                                           remainingStagesByCode) :
                    LET progress == getProgress(g.progress, targetCode)
                    IN /\ selectedCode' = Null
                       /\ reveal' = FALSE
                       /\ isCorrect' = Null
                       /\ stage' = g.stage
                       /\ progressByCode' = progress
                       /\ \E q \in syncRemainingStages(env, targetCode, progress[targetCode],
                                                       g.remaining) :
                            remainingStagesByCode' = SetQueue(g.remaining, targetCode, q)
                       /\ UNCHANGED targetCode
  /\ UNCHANGED <<loadVars, failedCodes>>
  /\ UNCHANGED <<serviceVars, adapterVars>>

\* watch([flagsEnabled, capitalsEnabled]) after the toggles were set to f, c
WatchToggles(f, c) ==
  /\ mounted
  /\ <<f, c>> # <<flagsEnabled, capitalsEnabled>>
  /\ flagsEnabled' = f
  /\ capitalsEnabled' = c
  /\ settings' = writeSettings(f, c)
  /\ LET env == Env(countries, activeMap, f, c)
     IN /\ foundCodes' = refreshFoundCodes(env, progressByCode)
        /\ IF targetCode = Null
             THEN UNCHANGED <<sessionVars, progressByCode, remainingStagesByCode>>
             ELSE \E r \in (IF stage \in Range(getAvailableStages(env, targetCode))
                              THEN {[selectedCode |-> selectedCode, reveal |-> reveal,
                                     isCorrect |-> isCorrect, stage |-> stage,
                                     progress |-> progressByCode,
                                     remaining |-> remainingStagesByCode]}
                              ELSE {[selectedCode |-> Null, reveal |-> FALSE,
                                     isCorrect |-> Null, stage |-> g.stage,
                                     progress |-> g.progress, remaining |-> g.remaining] :
                                      g \in getStageForCode(env, targetCode, progressByCode,
                                                            remainingStagesByCode)}) :
                    LET progress == getProgress(r.progress, targetCode)
                    IN /\ selectedCode' = r.selectedCode
                       /\ reveal' = r.reveal
                       /\ isCorrect' = r.isCorrect
                       /\ stage' = r.stage
                       /\ progressByCode' = progress
                       /\ \E q \in syncRemainingStages(env, targetCode, progress[targetCode],
                                                       r.remaining) :
                            remainingStagesByCode' = SetQueue(r.remaining, targetCode, q)
                       /\ UNCHANGED targetCode
  /\ UNCHANGED <<loadVars, failedCodes>>
  /\ UNCHANGED <<serviceVars, adapterVars>>

Next ==
  \/ OnMounted
  \/ \E next \in MapIds : WatchActiveMap(next)
  \/ \E i \in 1..MaxPending : \E data \in UNION {ProviderResults(m) : m \in MapIds} :
       LoadSuccess(i, data)
  \/ \E i \in 1..MaxPending : LoadFailure(i)
  \/ \E code \in Codes : HandleGuess(code)
  \/ HandlePrimaryAction
  \/ ResetGame
  \/ \E f \in BOOLEAN, c \in BOOLEAN : WatchToggles(f, c)

Spec == Init /\ [][Next]_allVars

\* A session that can also switch to the feature-collection maps.
InitGeo ==
  /\ catalog = {"europe", "fr-regions", "geo-unconfigured"}
  /\ Setup
  /\ ServicesIdle
  /\ AdapterIdle

SpecGeo == InitGeo /\ [][Next]_allVars

\* A session played on EUROPE_MAP alone: the dataset is loaded once, and the
\* user only selects, confirms and advances (no toggle change, no reset, no
\* switch of map).
InitPlay ==
  /\ catalog = {"europe"}
  /\ Setup
  /\ ServicesIdle
  /\ AdapterIdle

NextPlay ==
  \/ OnMounted
  \/ \E i \in 1..MaxPending : \E data \in ProviderResults("europe") : LoadSuccess(i, data)
  \/ \E i \in 1..MaxPending : LoadFailure(i)
  \/ \E code \in Codes : HandleGuess(code)
  \/ HandlePrimaryAction

\* The user keeps playing: a selection is made whenever one can be made, and
\* the primary action is used whenever it does something.
SpecPlay ==
  /\ InitPlay /\ [][NextPlay]_allVars
  /\ WF_allVars(\E code \in Codes : HandleGuess(code))
  /\ WF_allVars(HandlePrimaryAction)

\* ---------------------------------------------------------------- presentation adapter
\* EuropeMap.vue between the user's clicks and the engine: it reads the engine's
\* state as props, and its country-selected event is wired to handleGuess.

\* The codes of the outlines in the feature collection EuropeMap fetches.
FeatureCodes == {"FR", "DE", "US"}

\* props.quickSelectCountries: the quick-select buttons of the active map.
quickSelectCountries == IF MAPS[activeMap].kind = "countries" THEN MAPS[activeMap].codes ELSE {}

\* props.capitalPoints: the markers of the capital layer, rebuilt by the
\* watcher of capitalPoints whenever the snapshot changes.
capitalPoints == {code \in DOMAIN countries : countries[code].capitalLatLng}

\* props.availableCodes.length > 0 && !props.geojsonUrl
shouldFilterByAllowed == DOMAIN countries # {} /\ ~MAPS[activeMap].geojsonConfig

isAllowedCode(code) == ~shouldFilterByAllowed \/ code \in DOMAIN countries

\* Mutant: quick select stays open during the capital stage.
canQuickSelect_ignoresStage(code) ==
  IF reveal THEN FALSE
  ELSE IF code \in foundCodes \/ code \in failedCodes THEN FALSE
  ELSE TRUE

canQuickSelect(code) ==
  IF reveal THEN FALSE
  ELSE IF stage = "capital" THEN FALSE
  ELSE IF code \in foundCodes \/ code \in failedCodes THEN FALSE
  ELSE TRUE

isCapitalInteractive == stage = "capital" /\ ~reveal

canSelectCapital(code) ==
  isCapitalInteractive /\ code \notin foundCodes /\ code \notin failedCodes

\* buildLayer: the outlines that get a click handler, decided from the props
\* at the time the layer is built.
buildLayer ==
  LET allowedFeatures == {code \in FeatureCodes : isAllowedCode(code)}
      allowAnyClick == allowedFeatures = {} /\ ~shouldFilterByAllowed
      featuresToShow == IF allowedFeatures # {} THEN allowedFeatures ELSE FeatureCodes
  IN [built |-> TRUE,
      clickable |-> {code \in featuresToShow :
                       /\ allowAnyClick \/ isAllowedCode(code)
                       /\ code \notin foundCodes
                       /\ code \notin failedCodes}]

\* emit('country-selected', code), handled by handleGuess(code).
EmitCountrySelected(source, code) ==
  /\ emitted' = [source |-> source, code |-> code, forwarded |-> TRUE]
  /\ IF reveal THEN UNCHANGED selectedCode ELSE selectedCode' = code
  /\ UNCHANGED <<loadVars, toggleVars, entityVars, targetCode, reveal, isCorrect, stage>>

\* A click that the adapter does not forward.
Ignored(source, code) ==
  /\ emitted' = [source |-> source, code |-> code, forwarded |-> FALSE]
  /\ UNCHANGED vars

\* loadGeojson resumed by the outline collection: buildLayer runs.
LoadGeojson ==
  /\ mounted
  /\ ~geoLayer.built
  /\ geoLayer' = buildLayer
  /\ UNCHANGED <<emitted, vars, serviceVars>>

\* The click handler buildLayer bound to the outline of code.
ClickOutline(code) ==
  /\ geoLayer.built /\ code \in geoLayer.clickable
  /\ IF ~reveal /\ stage # "capital"
       THEN EmitCountrySelected("outline", code)
       ELSE Ignored("outline", code)
  /\ UNCHANGED <<geoLayer, serviceVars>>

\* handleQuickSelect(code), from a quick-select button of the overlay.
HandleQuickSelect(code) ==
  /\ mounted /\ code \in quickSelectCountries
  /\ IF canQuickSelect(code)
       THEN EmitCountrySelected("quick", code)
       ELSE Ignored("quick", code)
  /\ UNCHANGED <<geoLayer, serviceVars>>

\* The click handler of the capital marker of code (createCapitalLayer).
ClickCapital(code) ==
  /\ mounted /\ capitalsEnabled /\ code \in capitalPoints
  /\ IF isCapitalInteractive /\ canSelectCapital(code)
       THEN EmitCountrySelected("capital", code)
       ELSE Ignored("capital", code)
  /\ UNCHANGED <<geoLayer, serviceVars>>

\* A session on EUROPE_MAP in which every selection comes through the adapter.
InitUI ==
  /\ catalog = {"europe"}
  /\ Setup
  /\ ServicesIdle
  /\ AdapterIdle

NextUI ==
  \/ OnMounted
  \/ \E i \in 1..MaxPending : \E data \in ProviderResults("europe") : LoadSuccess(i, data)
  \/ \E i \in 1..MaxPending : LoadFailure(i)
  \/ HandlePrimaryAction
  \/ ResetGame
  \/ \E f \in BOOLEAN, c \in BOOLEAN : WatchToggles(f, c)
  \/ LoadGeojson
  \/ \E code \in FeatureCodes : ClickOutline(code)
  \/ \E code \in Codes : HandleQuickSelect(code)
  \/ \E code \in Codes : ClickCapital(code)

SpecUI == InitUI /\ [][NextUI]_allVars

\* ---------------------------------------------------------------- data services
MaxCalls == 2
MaxPayload == 2

\* readCache: whether a result is read (the value is not null), and the result.
readCache(entry) == [hit |-> entry.raw = "json", data |-> entry.data]

\* Mutant: the entry is written without the data.
writeCache_dropsData(data) == [raw |-> "json", data |-> NoData]

\* writeCache: the entry after setItem(cacheKey, JSON.stringify(data)).
writeCache(data) == [raw |-> "json", data |-> data]

\* String.prototype.toUpperCase on the codes a payload carries.
toUpperCase(code) == IF code = "fr" THEN "FR" ELSE IF code = "de" THEN "DE" ELSE code

\* String.prototype.trim on the codes and names a feature carries.
trim(text) == IF text = " R1 " THEN "R1" ELSE IF text = "  " THEN "" ELSE text

\* ApiCountry, reduced to cca2 (absent: ""), whether capitalInfo.latlng holds
\* two numbers, and whether flags holds an image: requested codes in either
\* case, with and without coordinates, a code nobody requested, no code.
ApiCountry ==
  {[cca2 |-> "fr", latlng |-> TRUE, flags |-> TRUE],
   [cca2 |-> "fr", latlng |-> FALSE, flags |-> TRUE],
   [cca2 |-> "DE", latlng |-> TRUE, flags |-> FALSE],
   [cca2 |-> "DE", latlng |-> FALSE, flags |-> TRUE],
   [cca2 |-> "US", latlng |-> TRUE, flags |-> TRUE],
   [cca2 |-> "", latlng |-> TRUE, flags |-> TRUE]}

\* ApiCountryV2, reduced in the same way.
ApiCountryV2 ==
  {[alpha2Code |-> "fr", latlng |-> TRUE, flag |-> TRUE],
   [alpha2Code |-> "fr", latlng |-> FALSE, flag |-> TRUE],
   [alpha2Code |-> "DE", latlng |-> TRUE, flag |-> FALSE],
   [alpha2Code |-> "DE", latlng |-> FALSE, flag |-> TRUE],
   [alpha2Code |-> "US", latlng |-> TRUE, flag |-> TRUE],
   [alpha2Code |-> "", latlng |-> TRUE, flag |-> TRUE]}

\* GeojsonFeature, reduced to the two properties read through codeKey and
\* nameKey ("none": absent or of another type).
GeojsonFeature ==
  {[code |-> " R1 ", nom |-> "Region"],
   [code |-> "none", nom |-> "Region"],
   [code |-> "  ", nom |-> "Region"],
   [code |-> " R1 ", nom |-> "none"],
   [code |-> " R1 ", nom |-> "  "]}

\* The bodies a response can carry: arrays of at most MaxPayload records.
PayloadsOf(records) == UNION {[1..n -> records] : n \in 0..MaxPayload}

Put(countryMap, code, info) ==
  [c \in DOMAIN countryMap \cup {code} |-> IF c = code THEN info ELSE countryMap[c]]

\* mapV3Countries: the loop over the payload, from record number index on.
RECURSIVE mapV3From(_, _, _, _)
mapV3From(payload, allowedCodes, index, countryMap) ==
  IF index > Len(payload) THEN countryMap
  ELSE LET country == payload[index]
           code == toUpperCase(country.cca2)
       IN IF code = "" \/ code \notin allowedCodes
            THEN mapV3From(payload, allowedCodes, index + 1, countryMap)
            ELSE mapV3From(payload, allowedCodes, index + 1,
                           Put(countryMap, code,
                               [flagUrl |-> country.flags, capitalLatLng |-> country.latlng]))

\* Mutant: every code of the payload is kept.
mapV3Countries_keepsAll(payload, allowedCodes) ==
  mapV3From(payload, {toUpperCase(payload[n].cca2) : n \in 1..Len(payload)}, 1, NoData)

mapV3Countries(payload, allowedCodes) == mapV3From(payload, allowedCodes, 1, NoData)

\* mapV2Countries: the loop over the payload, from record number index on.
RECURSIVE mapV2From(_, _, _, _)
mapV2From(payload, allowedCodes, index, countryMap) ==
  IF index > Len(payload) THEN countryMap
  ELSE LET country == payload[index]
           code == toUpperCase(country.alpha2Code)
       IN IF code = "" \/ code \notin allowedCodes
            THEN mapV2From(payload, allowedCodes, index + 1, countryMap)
            ELSE mapV2From(payload, allowedCodes, index + 1,
                           Put(countryMap, code,
                               [flagUrl |-> country.flag, capitalLatLng |-> country.latlng]))

mapV2Countries(payload, allowedCodes) == mapV2From(payload, allowedCodes, 1, NoData)

\* fetchGeojsonAreas, the forEach over the features, from feature number index on.
RECURSIVE mapFeaturesFrom(_, _, _)
mapFeaturesFrom(features, index, countryMap) ==
  IF index > Len(features) THEN countryMap
  ELSE LET props == features[index]
           code == trim(props.code)
           name == trim(props.nom)
       IN IF props.code = "none" \/ props.nom = "none" \/ code = "" \/ name = ""
            THEN mapFeaturesFrom(features, index + 1, countryMap)
            ELSE mapFeaturesFrom(features, index + 1,
                                 Put(countryMap, code,
                                     [flagUrl |-> FALSE, capitalLatLng |-> FALSE]))

mapFeatures(features) == mapFeaturesFrom(features, 1, NoData)

\* The record of a call that settled: fulfilled with value, or rejected.
Fulfilled(call, source, value) ==
  [fn |-> call.fn, cacheKey |-> call.cacheKey, codes |-> call.codes,
   contacted |-> call.contacted, status |-> "fulfilled", source |-> source,
   value |-> value, error |-> ""]

Rejected(call, error) ==
  [fn |-> call.fn, cacheKey |-> call.cacheKey, codes |-> call.codes,
   contacted |-> call.contacted, status |-> "rejected", source |-> "none",
   value |-> NoData, error |-> error]

\* fetchCountries(codes, cacheKey) up to its first await: the primary request
\* is sent.
CallFetchCountries(m) ==
  /\ m \in catalog
  /\ MAPS[m].kind = "countries"
  /\ Len(calls) < MaxCalls
  /\ calls' = Append(calls, [fn |-> "fetchCountries", codes |-> MAPS[m].codes,
                             cacheKey |-> MAPS[m].cacheKey, pc |-> "primary",
                             contacted |-> <<"primary">>])
  /\ UNCHANGED <<cache, settled, vars, adapterVars>>

\* fetchCountries, first try block: the primary response is ok and carries payload.
PrimaryResponds(i, payload) ==
  /\ i \in 1..Len(calls)
  /\ calls[i].fn = "fetchCountries" /\ calls[i].pc = "primary"
  /\ LET mapped == mapV3Countries(payload, calls[i].codes)
     IN /\ cache' = [cache EXCEPT ![calls[i].cacheKey] = writeCache(mapped)]
        /\ settled' = Fulfilled(calls[i], "primary", mapped)
  /\ calls' = RemoveAt(calls, i)
  /\ UNCHANGED <<vars, adapterVars>>

\* fetchCountries, first catch block: the primary request failed, timed out or
\* was answered with an error status; the secondary request is sent.
PrimaryFails(i) ==
  /\ i \in 1..Len(calls)
  /\ calls[i].fn = "fetchCountries" /\ calls[i].pc = "primary"
  /\ calls' = [calls EXCEPT ![i].pc = "secondary",
                            ![i].contacted = Append(@, "secondary")]
  /\ UNCHANGED <<cache, settled, vars, adapterVars>>

\* fetchCountries, second try block: the secondary response is ok and carries payload.
SecondaryResponds(i, payload) ==
  /\ i \in 1..Len(calls)
  /\ calls[i].fn = "fetchCountries" /\ calls[i].pc = "secondary"
  /\ LET mapped == mapV2Countries(payload, calls[i].codes)
     IN /\ cache' = [cache EXCEPT ![calls[i].cacheKey] = writeCache(mapped)]
        /\ settled' = Fulfilled(calls[i], "secondary", mapped)
  /\ calls' = RemoveAt(calls, i)
  /\ UNCHANGED <<vars, adapterVars>>

\* Mutant: the cache is not consulted after the two requests failed.
SecondaryFails_alwaysRejects(i) ==
  /\ i \in 1..Len(calls)
  /\ calls[i].fn = "fetchCountries" /\ calls[i].pc = "secondary"
  /\ settled' = Rejected(calls[i], "Failed to load country data.")
  /\ calls' = RemoveAt(calls, i)
  /\ UNCHANGED <<cache, vars, adapterVars>>

\* fetchCountries, second catch block and the cache fallback.
SecondaryFails(i) ==
  /\ i \in 1..Len(calls)
  /\ calls[i].fn = "fetchCountries" /\ calls[i].pc = "secondary"
  /\ LET cached == readCache(cache[calls[i].cacheKey])
     IN settled' = IF cached.hit
                     THEN Fulfilled(calls[i], "cache", cached.data)
                     ELSE Rejected(calls[i], "Failed to load country data.")
  /\ calls' = RemoveAt(calls, i)
  /\ UNCHANGED <<cache, vars, adapterVars>>

\* Mutant: the request is sent whatever the cache holds.
CallFetchGeojsonAreas_ignoresCache(m) ==
  /\ m \in catalog
  /\ MAPS[m].kind = "geojson" /\ MAPS[m].geojsonConfig
  /\ Len(calls) < MaxCalls
  /\ calls' = Append(calls, [fn |-> "fetchGeojsonAreas", codes |-> MAPS[m].codes,
                             cacheKey |-> MAPS[m].cacheKey, pc |-> "fetch",
                             contacted |-> <<"geojson">>])
  /\ UNCHANGED <<cache, settled, vars, adapterVars>>

\* fetchGeojsonAreas(config) up to its await: the cached entry is returned, or
\* the request is sent.
CallFetchGeojsonAreas(m) ==
  /\ m \in catalog
  /\ MAPS[m].kind = "geojson" /\ MAPS[m].geojsonConfig
  /\ Len(calls) < MaxCalls
  /\ LET call == [fn |-> "fetchGeojsonAreas", codes |-> MAPS[m].codes,
                  cacheKey |-> MAPS[m].cacheKey, pc |-> "fetch", contacted |-> <<>>]
         cached == readCache(cache[MAPS[m].cacheKey])
     IN IF cached.hit
          THEN /\ settled' = Fulfilled(call, "cache", cached.data)
               /\ UNCHANGED calls
          ELSE /\ calls' = Append(calls, [call EXCEPT !.contacted = <<"geojson">>])
               /\ UNCHANGED settled
  /\ UNCHANGED <<cache, vars, adapterVars>>

\* fetchGeojsonAreas resumed by an ok response that carries features.
GeojsonResponds(i, features) ==
  /\ i \in 1..Len(calls)
  /\ calls[i].fn = "fetchGeojsonAreas"
  /\ LET countryMap == mapFeatures(features)
     IN /\ cache' = [cache EXCEPT ![calls[i].cacheKey] = writeCache(countryMap)]
        /\ settled' = Fulfilled(calls[i], "geojson", countryMap)
  /\ calls' = RemoveAt(calls, i)
  /\ UNCHANGED <<vars, adapterVars>>

\* fetchGeojsonAreas resumed by a failed request or an error status.
GeojsonFails(i) ==
  /\ i \in 1..Len(calls)
  /\ calls[i].fn = "fetchGeojsonAreas"
  /\ settled' = Rejected(calls[i], "Failed to load area data.")
  /\ calls' = RemoveAt(calls, i)
  /\ UNCHANGED <<cache, vars, adapterVars>>

\* The services on their own, called for a countries map and for a
\* feature-collection map: any storage content to start with, no engine step.
InitFetch ==
  /\ catalog = {"europe", "fr-regions"}
  /\ cache \in [CacheKeys -> {MissingEntry, CorruptEntry}]
  /\ \A m \in ServiceMaps \ catalog : cache[MAPS[m].cacheKey] = MissingEntry
  /\ calls = <<>>
  /\ settled = NothingSettled
  /\ settings = writeSettings(FALSE, FALSE)
  /\ Setup
  /\ AdapterIdle

NextFetch ==
  \/ \E m \in ServiceMaps : CallFetchCountries(m)
  \/ \E i \in 1..MaxCalls : \E payload \in PayloadsOf(ApiCountry) : PrimaryResponds(i, payload)
  \/ \E i \in 1..MaxCalls : PrimaryFails(i)
  \/ \E i \in 1..MaxCalls : \E payload \in PayloadsOf(ApiCountryV2) : SecondaryResponds(i, payload)
  \/ \E i \in 1..MaxCalls : SecondaryFails(i)
  \/ \E m \in ServiceMaps : CallFetchGeojsonAreas(m)
  \/ \E i \in 1..MaxCalls : \E features \in PayloadsOf(GeojsonFeature) : GeojsonResponds(i, features)
  \/ \E i \in 1..MaxCalls : GeojsonFails(i)

SpecFetch == InitFetch /\ [][NextFetch]_allVars

\* ---------------------------------------------------------------- properties
\* The stages applicable to code: name, and each further stage that is active
\* and that the entity's data supports.
Applicable(code) == Range(getAvailableStages(CurrentEnv, code))

\* An entity is complete when its name and every applicable stage are done.
Complete(code) ==
  /\ code \in DOMAIN progressByCode
  /\ progressByCode[code].name
  /\ \A s \in Applicable(code) : progressByCode[code][s]

QueueOf(rem, code) == IF code \in DOMAIN rem THEN rem[code] ELSE <<>>

\* A step of handlePrimaryAction that runs confirmGuess.
Confirms == HandlePrimaryAction /\ ~actionDisabled /\ ~reveal /\ targetCode # Null

ConfirmsCorrectGuess == Confirms /\ selectedCode = targetCode

ConfirmsWrongGuess == Confirms /\ selectedCode # targetCode

\* A step of handlePrimaryAction that runs advanceRound.
Advances == HandlePrimaryAction /\ ~actionDisabled /\ reveal

\* C1: a confirmGuess with selectedCode = targetCode marks exactly the current
\* stage done for the target, takes that stage out of the target's queue, adds
\* the target to foundCodes iff the target is then complete, and leaves the
\* Progress and the queue of every other entity as they were.
C1_CorrectGuessEffect ==
  [][ConfirmsCorrectGuess =>
       /\ targetCode \in DOMAIN progressByCode'
       /\ \A s \in Stage :
            progressByCode'[targetCode][s] = (s = stage \/ Done(progressByCode, targetCode, s))
       /\ QueueOf(remainingStagesByCode', targetCode)
            = SelectSeq(QueueOf(remainingStagesByCode, targetCode), LAMBDA s : s # stage)
       /\ foundCodes' = IF Complete(targetCode)' THEN foundCodes \cup {targetCode}
                                                ELSE foundCodes
       /\ \A code \in Codes \ {targetCode} :
            /\ (code \in DOMAIN progressByCode') = (code \in DOMAIN progressByCode)
            /\ code \in DOMAIN progressByCode => progressByCode'[code] = progressByCode[code]
            /\ (code \in DOMAIN remainingStagesByCode') = (code \in DOMAIN remainingStagesByCode)
            /\ code \in DOMAIN remainingStagesByCode =>
                 remainingStagesByCode'[code] = remainingStagesByCode[code]
  ]_vars

\* C1 witness: a correct guess on a stage other than name completed the target
\* while another entity has a Progress entry.
C1_Witness ==
  /\ reveal /\ isCorrect = "true" /\ stage # "name"
  /\ targetCode \in foundCodes
  /\ DOMAIN progressByCode # {targetCode}

\* C2: a confirmGuess with selectedCode # targetCode reveals the round as wrong
\* and adds the target to failedCodes, on any stage and with any progress; no
\* Progress entry, no queue and not foundCodes change.
C2_WrongGuessEffect ==
  [][ConfirmsWrongGuess =>
       /\ reveal' /\ isCorrect' = "false"
       /\ failedCodes' = failedCodes \cup {targetCode}
       /\ UNCHANGED <<progressByCode, remainingStagesByCode, foundCodes>>
  ]_vars

\* C2 witness: a wrong guess on the capital stage of a target whose name is done.
C2_Witness ==
  /\ reveal /\ isCorrect = "false" /\ stage = "capital"
  /\ targetCode \in failedCodes
  /\ Done(progressByCode, targetCode, "name")

\* C3: a confirmGuess with selectedCode = targetCode yields isCorrect = true and
\* adds nothing to failedCodes.
C3_CorrectGuessNeverFails ==
  [][ConfirmsCorrectGuess => isCorrect' = "true" /\ failedCodes' = failedCodes]_vars

\* C3 witness: a correct guess was confirmed while another entity is failed.
C3_Witness ==
  /\ reveal /\ isCorrect = "true" /\ selectedCode = targetCode
  /\ failedCodes # {} /\ targetCode \notin failedCodes

\* The loaded codes that are neither found nor failed.
CandidatePool == DOMAIN countries \ (foundCodes \cup failedCodes)

\* A step that runs pickNewTarget.
PicksTarget == Advances \/ ResetGame \/ \E i \in 1..Len(pending) :
                 \E data \in ProviderResults(pending[i].map) : LoadSuccess(i, data)

\* C4: while the candidate pool is not empty, the code pickNewTarget sets as
\* targetCode is a loaded code that is in neither foundCodes nor failedCodes.
C4_PickFromPool ==
  [][PicksTarget /\ CandidatePool' # {} =>
       /\ targetCode' \in DOMAIN countries'
       /\ targetCode' \notin foundCodes' \cup failedCodes'
  ]_vars

\* C4 witness: a round is open on a target picked while another code is found
\* or failed.
C4_Witness ==
  /\ targetCode # Null /\ ~reveal /\ selectedCode = Null
  /\ foundCodes \cup failedCodes # {}
  /\ targetCode \in CandidatePool

\* C5: foundCodes is exactly the set of entities that have a Progress entry and
\* are complete under the current toggles and the entity's data.
C5_FoundIsComplete == foundCodes = {code \in Codes : Complete(code)}

\* A step that clears the whole Progress map: resetGame or the start of a load.
FullReset == ResetGame \/ OnMounted \/ \E next \in MapIds : WatchActiveMap(next)

\* C6: marking a stage done leaves the two other flags of the entity as they
\* were, and no step other than a full reset turns a flag from done to not done
\* or removes a Progress entry.
C6_ProgressMonotone ==
  [][/\ ConfirmsCorrectGuess =>
          \A s \in Stage \ {stage} :
            Done(progressByCode', targetCode, s) = Done(progressByCode, targetCode, s)
     /\ ~FullReset =>
          \A code \in DOMAIN progressByCode :
            /\ code \in DOMAIN progressByCode'
            /\ \A s \in Stage : progressByCode[code][s] => progressByCode'[code][s]
  ]_vars

\* C6 witness: an entity keeps its flag stage done after flags were disabled,
\* with its name stage done as well.
C6_Witness ==
  \E code \in DOMAIN progressByCode :
    /\ progressByCode[code].name /\ progressByCode[code].flag
    /\ ~flagsEnabled

\* C7: once no load is in flight and none has failed, the snapshot and the
\* target belong to the code set of the active map: the result of a load that
\* a later switch superseded is not stored and picks no target.
C7_StaleResultDiscarded ==
  (mounted /\ pending = <<>> /\ errorMessage = "") =>
     /\ DOMAIN countries \subseteq MAPS[activeMap].codes
     /\ targetCode \in MAPS[activeMap].codes \cup {Null}

\* C8: the failure of a load for a map that is no longer the active one is
\* discarded: it sets no error message, does not disable the action and does
\* not end the loading state.
C8_StaleFailureDiscarded ==
  [][\A i \in 1..Len(pending) :
       (pending[i].map # activeMap /\ LoadFailure(i)) =>
          /\ errorMessage' = errorMessage
          /\ loading' = loading
          /\ actionDisabled' = actionDisabled
  ]_vars

\* C9: when the active map's id changes, foundCodes, failedCodes, the Progress
\* map and the queues are emptied, the session has no target, no selection and
\* is not revealed, and one load is issued, for the code set and the cache key
\* of the new map.
C9_SwitchClearsAndLoads ==
  [][\A next \in MapIds :
       WatchActiveMap(next) =>
          /\ foundCodes' = {} /\ failedCodes' = {}
          /\ DOMAIN progressByCode' = {} /\ DOMAIN remainingStagesByCode' = {}
          /\ targetCode' = Null /\ selectedCode' = Null /\ ~reveal'
          /\ Len(pending') = Len(pending) + 1
          /\ SubSeq(pending', 1, Len(pending)) = pending
          /\ pending'[Len(pending')].codes = MAPS[next].codes
          /\ pending'[Len(pending')].cacheKey = MAPS[next].cacheKey
  ]_vars

\* C9 witness: the session was switched to the custom map and its load has
\* completed, with a failed code recorded after the switch only.
C9_Witness ==
  /\ activeMap = "custom" /\ pending = <<>> /\ ~loading
  /\ DOMAIN countries = MAPS["custom"].codes
  /\ failedCodes = {"DE"}

UserIntent ==
  \/ \E code \in Codes : HandleGuess(code)
  \/ HandlePrimaryAction
  \/ ResetGame
  \/ \E f \in BOOLEAN, c \in BOOLEAN : WatchToggles(f, c)

LoadErrorState == errorMessage # "" /\ targetCode = Null /\ actionDisabled

\* C10: a failed load leaves an error message, no target and the action
\* disabled, and selecting, confirming or advancing, toggling and resetGame
\* keep it so.
C10_LoadErrorPersists ==
  [][/\ (\E i \in 1..Len(pending) : LoadFailure(i)) => LoadErrorState'
     /\ (LoadErrorState /\ UserIntent) => LoadErrorState'
  ]_vars

\* C11: whenever a dataset load is pending the engine is loading, the action is
\* disabled and handlePrimaryAction changes nothing.
C11_PendingMeansLoading ==
  [][pending # <<>> =>
       /\ loading /\ actionDisabled
       /\ HandlePrimaryAction => UNCHANGED vars
  ]_vars

\* The stages applicable to code under the toggles f and c, from the catalog
\* entry of the active map and the entity's data.
StagesUnder(f, c, code) ==
  {"name"}
  \cup (IF f /\ MAPS[activeMap].supportsFlags /\ hasFlagUrl(countries, code)
          THEN {"flag"} ELSE {})
  \cup (IF c /\ MAPS[activeMap].supportsCapitals /\ hasCapitalLatLng(countries, code)
          THEN {"capital"} ELSE {})

\* A toggle change that leaves the stage of the current target inapplicable.
InvalidatesRound ==
  \E f \in BOOLEAN, c \in BOOLEAN :
    WatchToggles(f, c) /\ targetCode # Null /\ stage \notin StagesUnder(f, c, targetCode)

\* On a revealed round the primary action scores nothing.
RevealedScoresNothing ==
  (reveal /\ HandlePrimaryAction) =>
     /\ foundCodes' = foundCodes /\ failedCodes' = failedCodes
     /\ \A code \in DOMAIN progressByCode :
          code \in DOMAIN progressByCode' /\ progressByCode'[code] = progressByCode[code]

\* C12, as claimed: on a revealed round no guess is scored, and the round is
\* reopened only by a step that picks a target or starts a load.
C12_OneGuessPerRound ==
  [][/\ RevealedScoresNothing
     /\ (reveal /\ ~reveal') => (PicksTarget \/ FullReset)
  ]_vars

\* C12, amended: on a revealed round no guess is scored, and the round is
\* reopened only by a step that picks a target or starts a load, or by a toggle
\* change that leaves its stage inapplicable, which reopens it on the same
\* target.
C12_OneGuessPerStage ==
  [][/\ RevealedScoresNothing
     /\ (reveal /\ ~reveal') =>
          \/ PicksTarget \/ FullReset
          \/ InvalidatesRound /\ targetCode' = targetCode /\ stage' # stage
  ]_vars

\* C12 witness: a failed target is open for a guess again, on the name stage,
\* after the flag stage it was failed on was disabled.
C12_Witness ==
  /\ targetCode \in failedCodes /\ ~reveal /\ stage = "name"
  /\ ~flagsEnabled /\ ~capitalsEnabled
  /\ pending = <<>> /\ activeMap = "europe" /\ DOMAIN countries = MAPS["europe"].codes

\* The action is disabled while loading, after a load error, and on an
\* unrevealed round with no selection.
Disabled == loading \/ errorMessage # "" \/ (~reveal /\ selectedCode = Null)

\* C13: handlePrimaryAction changes nothing when the action is disabled or no
\* target is set; on an unrevealed round it reveals and scores the guess against
\* the unchanged target; on a revealed round it scores nothing and, when a
\* candidate is left, opens a round on a target picked from the pool.
C13_PrimaryAction ==
  [][HandlePrimaryAction =>
       IF Disabled \/ targetCode = Null THEN UNCHANGED vars
       ELSE IF ~reveal
         THEN /\ reveal' /\ UNCHANGED <<targetCode, selectedCode, stage>>
              /\ isCorrect' = (IF selectedCode = targetCode THEN "true" ELSE "false")
              /\ IF selectedCode = targetCode
                   THEN Done(progressByCode', targetCode, stage) /\ failedCodes' = failedCodes
                   ELSE /\ failedCodes' = failedCodes \cup {targetCode}
                        /\ UNCHANGED <<progressByCode, foundCodes>>
         ELSE /\ UNCHANGED <<foundCodes, failedCodes>>
              /\ CandidatePool # {} =>
                   /\ targetCode' \in CandidatePool
                   /\ ~reveal' /\ selectedCode' = Null /\ isCorrect' = Null
  ]_vars

\* C13 witness: a round revealed by a confirm, after an earlier round was
\* confirmed and advanced from.
C13_Witness ==
  /\ reveal /\ ~Disabled /\ targetCode # Null
  /\ failedCodes # {} /\ targetCode \notin failedCodes

\* C14: handleGuess(code) changes nothing on a revealed round; on an unrevealed
\* round it sets selectedCode to code and changes nothing else.
C14_SelectCandidate ==
  [][\A code \in Codes :
       HandleGuess(code) =>
         IF reveal THEN UNCHANGED vars
         ELSE /\ selectedCode' = code
              /\ UNCHANGED <<loadVars, toggleVars, entityVars,
                             targetCode, reveal, isCorrect, stage>>
  ]_vars

\* C14 witness: a revealed round, whose selection handleGuess has to leave.
C14_Witness ==
  reveal /\ selectedCode # Null /\ selectedCode # targetCode /\ pending = <<>>

\* C15: when every loaded code is found or failed, advancing changes nothing.
C15_ExhaustedAdvanceIsNoOp ==
  [][(Advances /\ CandidatePool = {}) => UNCHANGED vars]_vars

\* C15 witness: a revealed round with every loaded code found or failed.
C15_Witness ==
  /\ reveal /\ ~actionDisabled /\ targetCode # Null
  /\ DOMAIN countries # {} /\ CandidatePool = {}

\* The applicable stages of code, under the toggles f and c, that prog does not
\* record as done.
UndoneUnder(f, c, code, prog) ==
  {s \in StagesUnder(f, c, code) : ~Done(prog, code, s)}

\* C16: a toggle change that leaves the stage of the current target inapplicable
\* keeps targetCode, clears selectedCode, reveal and isCorrect, and sets stage to
\* what stage sequencing serves: the first entry of the target's queue that is
\* still applicable and not done, else an applicable stage not yet done, else
\* any applicable stage.
C16_ToggleInvalidatesStage ==
  [][\A f \in BOOLEAN, c \in BOOLEAN :
       (WatchToggles(f, c) /\ targetCode # Null
          /\ stage \notin StagesUnder(f, c, targetCode)) =>
         LET undone == UndoneUnder(f, c, targetCode, progressByCode)
             kept == SelectSeq(QueueOf(remainingStagesByCode, targetCode),
                               LAMBDA s : s \in undone)
         IN /\ targetCode' = targetCode
            /\ stage' \in StagesUnder(f, c, targetCode)
            /\ undone # {} => stage' \in undone
            /\ kept # <<>> => stage' = kept[1]
            /\ selectedCode' = Null /\ ~reveal' /\ isCorrect' = Null
  ]_vars

\* C16 witness: a failed target is open for a guess again on its flag stage,
\* with capitals off: the capital stage it was failed on was disabled.
C16_Witness ==
  /\ targetCode \in failedCodes /\ ~reveal /\ selectedCode = Null /\ stage = "flag"
  /\ flagsEnabled /\ ~capitalsEnabled /\ hasCapitalLatLng(countries, targetCode)
  /\ pending = <<>>

\* An entity is complete under the current toggles.
CompleteNow(code) ==
  /\ Done(progressByCode, code, "name")
  /\ UndoneUnder(flagsEnabled, capitalsEnabled, code, progressByCode) = {}

\* C17: after any toggle change foundCodes is exactly the set of entities with a
\* Progress entry that is complete under the new toggles.
C17_ToggleRecomputesFound ==
  [][\A f \in BOOLEAN, c \in BOOLEAN :
       WatchToggles(f, c) => (foundCodes = {code \in Codes : CompleteNow(code)})'
  ]_vars

\* C17 witness: the unrevealed target is in foundCodes with its flag stage not
\* done, flags being off: it was found when the flag stage was disabled.
C17_Witness ==
  /\ targetCode \in foundCodes /\ ~reveal
  /\ ~flagsEnabled /\ hasFlagUrl(countries, targetCode)
  /\ ~Done(progressByCode, targetCode, "flag")
  /\ pending = <<>>

\* The Progress map a run of the toggles watcher leaves: the entry of the
\* current target is created when it is missing.
ProgressAfterToggle(prog) ==
  IF targetCode = Null THEN prog ELSE getProgress(prog, targetCode)

\* foundCodes after the toggles are set to <<f1, c1>> and then to <<f2, c2>>, the
\* watcher running after each change.
FoundAfterToggles(f1, c1, f2, c2) ==
  refreshFoundCodes(Env(countries, activeMap, f2, c2),
                    ProgressAfterToggle(ProgressAfterToggle(progressByCode)))

\* C18: flipping a toggle that is off on and then off again, with nothing in
\* between, leaves foundCodes as it was before the first flip.
C18_FlipRestoresFound ==
  mounted =>
    /\ ~flagsEnabled =>
         FoundAfterToggles(TRUE, capitalsEnabled, FALSE, capitalsEnabled) = foundCodes
    /\ ~capitalsEnabled =>
         FoundAfterToggles(flagsEnabled, TRUE, flagsEnabled, FALSE) = foundCodes

\* The stages getStageForCode can return for code once the toggles are f and c.
StagesServed(f, c, code) ==
  {r.stage : r \in getStageForCode(Env(countries, activeMap, f, c), code,
                                    progressByCode, remainingStagesByCode)}

\* The stages of code that the toggles f and c make applicable and the current
\* toggles do not.
NewlyApplicable(f, c, code) ==
  StagesUnder(f, c, code) \ StagesUnder(flagsEnabled, capitalsEnabled, code)

\* C19, as claimed: for an entity complete under the current toggles, when the
\* toggles f and c make a further stage applicable, getStageForCode returns a
\* newly applicable stage that is not done.
C19_ServesNewStage ==
  \A code \in DOMAIN countries : \A f \in BOOLEAN, c \in BOOLEAN :
    (CompleteNow(code) /\ NewlyApplicable(f, c, code) # {}) =>
      \A s \in StagesServed(f, c, code) :
        s \in NewlyApplicable(f, c, code) /\ ~Done(progressByCode, code, s)

\* C19, amended: for an entity complete under the current toggles, when the
\* toggles f and c make applicable a stage that is not yet done, getStageForCode
\* returns a newly applicable stage that is not done.
C19_ServesNewUndoneStage ==
  \A code \in DOMAIN countries : \A f \in BOOLEAN, c \in BOOLEAN :
    (CompleteNow(code) /\ UndoneUnder(f, c, code, progressByCode) # {}) =>
      \A s \in StagesServed(f, c, code) :
        s \in NewlyApplicable(f, c, code) /\ ~Done(progressByCode, code, s)

\* C19 witness: a found entity has a flag, flags are off and its flag stage is
\* not done, so that enabling flags makes an undone stage applicable.
C19_Witness ==
  \E code \in foundCodes :
    /\ CompleteNow(code) /\ ~flagsEnabled
    /\ UndoneUnder(TRUE, capitalsEnabled, code, progressByCode) = {"flag"}
    /\ Done(progressByCode, code, "capital")
    /\ pending = <<>>

\* C20: whenever a target is set, the current stage is one of its applicable
\* stages: "flag" only with flags enabled and a flag reference, "capital" only
\* with capitals enabled and capital coordinates.
C20_StageIsApplicable ==
  targetCode # Null =>
    /\ stage \in StagesUnder(flagsEnabled, capitalsEnabled, targetCode)
    /\ stage = "flag" => flagsEnabled /\ hasFlagUrl(countries, targetCode)
    /\ stage = "capital" => capitalsEnabled /\ hasCapitalLatLng(countries, targetCode)

\* C21: a target pick never serves a stage that is already done for the picked
\* entity; in particular not the stage a correct guess was scored on earlier.
C21_PickServesUndoneStage ==
  [][PicksTarget /\ CandidatePool' # {} =>
       ~Done(progressByCode', targetCode', stage')
  ]_vars

\* C22: resetGame empties foundCodes and failedCodes, leaves in Progress and in
\* the queues nothing but the fresh entry of the target it picks, opens an
\* unrevealed round with no selection on a loaded code (no target when nothing
\* is loaded), issues no load and leaves the snapshot and the settings alone.
C22_ResetGame ==
  [][ResetGame =>
       /\ foundCodes' = {} /\ failedCodes' = {}
       /\ selectedCode' = Null /\ ~reveal' /\ isCorrect' = Null
       /\ IF DOMAIN countries = {}
            THEN /\ targetCode' = Null /\ stage' = "name"
                 /\ progressByCode' = EmptyMap /\ remainingStagesByCode' = EmptyMap
            ELSE /\ targetCode' \in DOMAIN countries
                 /\ stage' \in StagesUnder(flagsEnabled, capitalsEnabled, targetCode')
                 /\ DOMAIN progressByCode' = {targetCode'}
                 /\ progressByCode'[targetCode'] = NewProgress
                 /\ DOMAIN remainingStagesByCode' = {targetCode'}
                 /\ remainingStagesByCode'[targetCode'][1] = stage'
       /\ UNCHANGED <<pending, loading, errorMessage, countries, activeMap, mounted, catalog>>
       /\ UNCHANGED <<flagsEnabled, capitalsEnabled, settings>>
  ]_vars

\* C22 witness: a fresh round on a loaded code with nothing recorded but the
\* target's empty Progress, while a load error is showing: no load put the
\* target there, resetGame did.
C22_Witness ==
  /\ errorMessage # "" /\ ~loading /\ pending = <<>>
  /\ targetCode \in DOMAIN countries /\ ~reveal /\ selectedCode = Null
  /\ foundCodes = {} /\ failedCodes = {}
  /\ DOMAIN progressByCode = {targetCode} /\ progressByCode[targetCode] = NewProgress

\* The pair of toggles an engine started on the settings entry hydrates.
Hydrated(entry) == <<readSettings(entry).flagsEnabled, readSettings(entry).capitalsEnabled>>

\* C23: after any change of a toggle the stored entry is the serialized current
\* pair and hydrates to that pair; an engine that has just started holds the
\* pair its entry hydrates to, which is <<FALSE, FALSE>> for a missing or
\* unparsable entry.
C23_SettingsRoundTrip ==
  [][/\ (flagsEnabled' # flagsEnabled \/ capitalsEnabled' # capitalsEnabled) =>
          /\ settings'.raw = "json"
          /\ settings'.flagsEnabled = flagsEnabled'
          /\ settings'.capitalsEnabled = capitalsEnabled'
          /\ Hydrated(settings') = <<flagsEnabled', capitalsEnabled'>>
     /\ ~mounted =>
          /\ <<flagsEnabled, capitalsEnabled>> = Hydrated(settings)
          /\ settings.raw # "json" => ~flagsEnabled /\ ~capitalsEnabled
          /\ settings.raw = "json" =>
               <<flagsEnabled, capitalsEnabled>> = <<settings.flagsEnabled, settings.capitalsEnabled>>
  ]_vars

\* C23 witness: a capital stage is done and capitals are off, so the toggle was
\* changed in this session, and the stored entry records the current pair.
C23_Witness ==
  /\ \E code \in DOMAIN progressByCode : progressByCode[code].capital
  /\ ~capitalsEnabled /\ flagsEnabled
  /\ settings.raw = "json" /\ settings.flagsEnabled /\ ~settings.capitalsEnabled

\* A step that starts the load of map next.
StartsLoad(next) == (OnMounted /\ next = activeMap) \/ WatchActiveMap(next)

\* A step that resumes a load, with a result or with a rejection.
ResumesLoad ==
  \E i \in 1..Len(pending) :
    \/ LoadFailure(i)
    \/ \E data \in ProviderResults(pending[i].map) : LoadSuccess(i, data)

\* The start of a load forces off the toggles the map does not support and keeps
\* the others; the end of a load leaves the toggles and the entry as they are.
LoadForcesToggles ==
  /\ \A next \in MapIds :
       StartsLoad(next) =>
         /\ flagsEnabled' = (flagsEnabled /\ MAPS[next].supportsFlags)
         /\ capitalsEnabled' = (capitalsEnabled /\ MAPS[next].supportsCapitals)
  /\ ResumesLoad => UNCHANGED <<flagsEnabled, capitalsEnabled, settings>>

\* C24, as claimed: a load forces off the unsupported toggles, and once it has
\* started the stored entry is the serialized resulting pair.
C24_LoadStoresSettings ==
  [][/\ LoadForcesToggles
     /\ \A next \in MapIds :
          StartsLoad(next) => settings' = writeSettings(flagsEnabled', capitalsEnabled')
  ]_vars

\* C24, amended: a load forces off the unsupported toggles, and once it has
\* started the stored entry hydrates to the resulting pair: it is rewritten when
\* a toggle was forced off and left as it was otherwise.
C24_LoadSettingsHydrate ==
  [][/\ LoadForcesToggles
     /\ \A next \in MapIds :
          StartsLoad(next) =>
            /\ Hydrated(settings') = <<flagsEnabled', capitalsEnabled'>>
            /\ IF <<flagsEnabled', capitalsEnabled'>> # <<flagsEnabled, capitalsEnabled>>
                 THEN settings' = writeSettings(flagsEnabled', capitalsEnabled')
                 ELSE settings' = settings
  ]_vars

\* C24 witness: the load of the feature-collection map is in flight after the
\* load of the countries map ended, both toggles are off and stored as off.
C24_Witness ==
  /\ activeMap = "fr-regions" /\ loading /\ Len(pending) = 1
  /\ ~flagsEnabled /\ ~capitalsEnabled
  /\ settings = writeSettings(FALSE, FALSE)

\* A cache entry that holds a result.
Usable(entry) == entry.raw = "json"

\* C25: fetchCountries is fulfilled with the primary result when the primary
\* request succeeds, without contacting the secondary; else with the secondary
\* result when that request succeeds; else with the cached result of its key
\* when there is one; it is rejected only after both requests failed with no
\* cached result.
C25_FetchCountriesFallback ==
  [][/\ \A i \in 1..Len(calls) :
          /\ \A payload \in PayloadsOf(ApiCountry) :
               PrimaryResponds(i, payload) =>
                 /\ settled'.status = "fulfilled"
                 /\ settled'.value = mapV3Countries(payload, calls[i].codes)
                 /\ settled'.contacted = <<"primary">>
                 /\ Len(calls') = Len(calls) - 1
          /\ \A payload \in PayloadsOf(ApiCountryV2) :
               SecondaryResponds(i, payload) =>
                 /\ settled'.status = "fulfilled"
                 /\ settled'.value = mapV2Countries(payload, calls[i].codes)
                 /\ settled'.contacted = <<"primary", "secondary">>
          /\ SecondaryFails(i) =>
               IF Usable(cache[calls[i].cacheKey])
                 THEN /\ settled'.status = "fulfilled"
                      /\ settled'.value = cache[calls[i].cacheKey].data
                 ELSE settled'.status = "rejected"
     /\ (Len(calls') < Len(calls) /\ settled'.fn = "fetchCountries"
           /\ settled'.status = "rejected") =>
          /\ settled'.contacted = <<"primary", "secondary">>
          /\ ~Usable(cache[settled'.cacheKey])
  ]_serviceVars

\* C25 witness: a call was fulfilled from the cache after both requests failed.
C25_Witness ==
  /\ settled.fn = "fetchCountries" /\ settled.status = "fulfilled"
  /\ settled.source = "cache" /\ settled.contacted = <<"primary", "secondary">>
  /\ DOMAIN settled.value = {"FR", "DE"}

\* The cache keys fetchCountries is called with.
CountriesKeys == {MAPS[m].cacheKey : m \in {k \in ServiceMaps : MAPS[k].kind = "countries"}}

\* C26: a successful primary or secondary fetch leaves under its cacheKey the
\* result it returns and touches no other key; no other step of fetchCountries
\* changes the cache; so the entry of a key is the result of the latest
\* successful fetch for it.
C26_CacheHoldsLatestSuccess ==
  [][/\ \A i \in 1..Len(calls) :
          /\ (\/ \E payload \in PayloadsOf(ApiCountry) : PrimaryResponds(i, payload)
              \/ \E payload \in PayloadsOf(ApiCountryV2) : SecondaryResponds(i, payload)) =>
               /\ Usable(cache'[calls[i].cacheKey])
               /\ cache'[calls[i].cacheKey].data = settled'.value
               /\ \A k \in CacheKeys \ {calls[i].cacheKey} : cache'[k] = cache[k]
          /\ (PrimaryFails(i) \/ SecondaryFails(i)) => cache' = cache
     /\ (\E m \in ServiceMaps : CallFetchCountries(m)) => cache' = cache
     /\ \A k \in CountriesKeys :
          cache'[k] # cache[k] =>
            /\ settled'.fn = "fetchCountries" /\ settled'.cacheKey = k
            /\ settled'.status = "fulfilled" /\ settled'.source \in {"primary", "secondary"}
     /\ (settled.fn = "fetchCountries" /\ settled.source \in {"primary", "secondary"}) =>
          cache[settled.cacheKey] = [raw |-> "json", data |-> settled.value]
  ]_serviceVars

\* C26 witness: the secondary result of the last call is in the cache, next to
\* the entry of another key.
C26_Witness ==
  /\ settled.fn = "fetchCountries" /\ settled.source = "secondary"
  /\ DOMAIN settled.value = {"FR", "DE"}
  /\ cache[settled.cacheKey].data = settled.value
  /\ \E k \in CacheKeys \ {settled.cacheKey} : Usable(cache[k]) /\ cache[k].data # NoData

\* The result expected of a payload whose records carry the codes codeOf (in
\* upper case) and the coordinates and flags latlngOf and flagOf: the requested
\* codes among them, each with the fields of its last record.
ExpectedCountries(codeOf, latlngOf, flagOf, requested) ==
  LET kept == {n \in DOMAIN codeOf : codeOf[n] \in requested}
      lastOf(code) == CHOOSE n \in kept : codeOf[n] = code /\ \A k \in kept : codeOf[k] = code => k <= n
  IN [code \in {codeOf[n] : n \in kept} |->
        [flagUrl |-> flagOf[lastOf(code)], capitalLatLng |-> latlngOf[lastOf(code)]]]

\* C27: the result of a successful primary or secondary fetch holds requested
\* codes only, and holds every requested code the payload carries, with its
\* capital coordinates absent when the record has none.
C27_MappedResult ==
  [][\A i \in 1..Len(calls) :
       /\ \A payload \in PayloadsOf(ApiCountry) :
            PrimaryResponds(i, payload) =>
              /\ settled'.status = "fulfilled"
              /\ DOMAIN settled'.value \subseteq calls[i].codes
              /\ settled'.value =
                   ExpectedCountries([n \in 1..Len(payload) |-> toUpperCase(payload[n].cca2)],
                                     [n \in 1..Len(payload) |-> payload[n].latlng],
                                     [n \in 1..Len(payload) |-> payload[n].flags],
                                     calls[i].codes)
       /\ \A payload \in PayloadsOf(ApiCountryV2) :
            SecondaryResponds(i, payload) =>
              /\ settled'.status = "fulfilled"
              /\ DOMAIN settled'.value \subseteq calls[i].codes
              /\ settled'.value =
                   ExpectedCountries([n \in 1..Len(payload) |-> toUpperCase(payload[n].alpha2Code)],
                                     [n \in 1..Len(payload) |-> payload[n].latlng],
                                     [n \in 1..Len(payload) |-> payload[n].flag],
                                     calls[i].codes)
  ]_serviceVars

\* C27 witness: a primary result holds an entity without capital coordinates
\* next to one with them.
C27_Witness ==
  /\ settled.fn = "fetchCountries" /\ settled.source = "primary"
  /\ DOMAIN settled.value = {"FR", "DE"}
  /\ ~settled.value["FR"].capitalLatLng /\ settled.value["DE"].capitalLatLng

\* C29: fetchGeojsonAreas is fulfilled with the cached result of its key,
\* without a request, whenever there is one; else it sends the request, writes
\* the mapped result under its key when the response is ok, and is rejected with
\* the cache unchanged when the request fails.
C29_GeojsonCacheFirst ==
  [][/\ \A m \in ServiceMaps :
          CallFetchGeojsonAreas(m) =>
            /\ cache' = cache
            /\ IF Usable(cache[MAPS[m].cacheKey])
                 THEN /\ calls' = calls
                      /\ settled'.status = "fulfilled" /\ settled'.contacted = <<>>
                      /\ settled'.value = cache[MAPS[m].cacheKey].data
                 ELSE /\ settled' = settled
                      /\ Len(calls') = Len(calls) + 1
                      /\ calls'[Len(calls')].contacted = <<"geojson">>
     /\ \A i \in 1..Len(calls) :
          /\ (\E features \in PayloadsOf(GeojsonFeature) : GeojsonResponds(i, features)) =>
               /\ settled'.status = "fulfilled"
               /\ cache'[calls[i].cacheKey] = [raw |-> "json", data |-> settled'.value]
               /\ \A k \in CacheKeys \ {calls[i].cacheKey} : cache'[k] = cache[k]
          /\ GeojsonFails(i) => settled'.status = "rejected" /\ cache' = cache
  ]_serviceVars

\* C29 witness: a call was fulfilled from the cache without a request.
C29_Witness ==
  /\ settled.fn = "fetchGeojsonAreas" /\ settled.status = "fulfilled"
  /\ settled.contacted = <<>> /\ DOMAIN settled.value = {"R1"}
  /\ cache[settled.cacheKey].data = settled.value

\* The snapshot is a result of the feature-collection provider.
FeatureSnapshot == countries \in ProviderResults("fr-regions")

\* C28: with a snapshot loaded through the feature-collection provider no entity
\* has a flag reference or capital coordinates, and the stage of every round is
\* "name", whatever the toggles.
C28_FeatureRoundsAreName ==
  FeatureSnapshot =>
    /\ \A code \in DOMAIN countries :
         ~hasFlagUrl(countries, code) /\ ~hasCapitalLatLng(countries, code)
    /\ targetCode \in DOMAIN countries => stage = "name"

\* C28 witness: a round on an area was answered with both toggles on.
C28_Witness ==
  /\ FeatureSnapshot /\ activeMap = "fr-regions"
  /\ targetCode \in DOMAIN countries /\ reveal /\ isCorrect = "true"
  /\ flagsEnabled /\ capitalsEnabled /\ stage = "name"

\* C30: the load of a feature-collection entry without its url and keys sends
\* no fetch and ends as a load failure does: error message set, loading ended,
\* no target, action disabled.
C30_UnconfiguredFailsFast ==
  [][\A next \in MapIds :
       (StartsLoad(next) /\ MAPS[next].kind = "geojson" /\ ~MAPS[next].geojsonConfig) =>
         /\ pending' = pending
         /\ errorMessage' # "" /\ ~loading'
         /\ targetCode' = Null /\ actionDisabled'
         /\ LoadErrorState'
  ]_vars

\* C30 witness: the unconfigured entry is active and its error is showing with
\* no load in flight.
C30_Witness ==
  /\ activeMap = "geo-unconfigured" /\ errorMessage = "Missing geojson config."
  /\ ~loading /\ pending = <<>> /\ targetCode = Null /\ actionDisabled

\* C31: every category score lies between 0 and its total, and a correct name
\* guess with no name done so far gives nameScore = 1.
C31_ScoresWithinTotals ==
  /\ [](/\ 0 <= nameScore /\ nameScore <= nameTotal
        /\ 0 <= flagScore /\ flagScore <= flagTotal
        /\ 0 <= capitalScore /\ capitalScore <= capitalTotal)
  /\ [][(ConfirmsCorrectGuess /\ stage = "name" /\ nameScore = 0) => nameScore' = 1]_vars

\* The data prerequisite of stage s is present for code in the snapshot.
HasPrerequisite(code, s) ==
  CASE s = "flag" -> code \in DOMAIN countries /\ countries[code].flagUrl
    [] s = "capital" -> code \in DOMAIN countries /\ countries[code].capitalLatLng
    [] OTHER -> TRUE

QueueHasNoDone ==
  \A code \in DOMAIN remainingStagesByCode :
    \A s \in Range(remainingStagesByCode[code]) : ~Done(progressByCode, code, s)

QueueHasPrerequisites ==
  \A code \in DOMAIN remainingStagesByCode :
    \A s \in Range(remainingStagesByCode[code]) : HasPrerequisite(code, s)

\* C32: no queue holds a stage marked done in the entity's Progress, nor a
\* stage whose data prerequisite is absent.
C32_QueueIsClean == QueueHasNoDone /\ QueueHasPrerequisites

\* C33: a target whose round is not revealed is in neither foundCodes nor
\* failedCodes.
C33_OpenTargetIsCandidate ==
  (targetCode # Null /\ ~reveal) => targetCode \notin foundCodes \cup failedCodes

\* C34: foundCodes and failedCodes are disjoint.
C34_FoundFailedDisjoint == foundCodes \cap failedCodes = {}

\* C35: lastGuessCorrect is set exactly when the round is revealed, and a
\* revealed round has a target and a selection, with lastGuessCorrect equal
\* to (selectedCode = targetCode).
C35_VerdictMatchesReveal ==
  /\ (isCorrect # Null) <=> reveal
  /\ reveal =>
       /\ targetCode # Null /\ selectedCode # Null
       /\ isCorrect = (IF selectedCode = targetCode THEN "true" ELSE "false")

\* C35 witness: a revealed wrong guess, on a target that a toggle change had
\* reopened after a first wrong guess.
C35_Witness ==
  /\ reveal /\ isCorrect = "false" /\ selectedCode # targetCode
  /\ targetCode \in failedCodes /\ stage = "name" /\ ~capitalsEnabled
  /\ Done(progressByCode, targetCode, "name")

\* C36: the target, when set, and every code with a Progress entry, a queue,
\* or membership in foundCodes or failedCodes is a code of the snapshot.
C36_CodesAreLoaded ==
  /\ targetCode # Null => targetCode \in DOMAIN countries
  /\ DOMAIN progressByCode \subseteq DOMAIN countries
  /\ DOMAIN remainingStagesByCode \subseteq DOMAIN countries
  /\ foundCodes \cup failedCodes \subseteq DOMAIN countries

\* A dataset is loaded and not empty.
Loaded == mounted /\ ~loading /\ errorMessage = "" /\ DOMAIN countries # {}

\* The applicable stages still to be answered, over the entities not failed.
RoundsLeft ==
  Cardinality({p \in (DOMAIN countries \ failedCodes) \X Stage :
                 p[2] \in Applicable(p[1]) /\ ~Done(progressByCode, p[1], p[2])})

\* The applicable stages over all entities of the snapshot.
TotalStages ==
  Cardinality({p \in (DOMAIN countries) \X Stage : p[2] \in Applicable(p[1])})

\* C37: in a session without toggle change, reset or switch, every scored round
\* either marks an applicable stage of the target done that was not done, or
\* adds the target to failedCodes; the stages left to answer, at most the total
\* of applicable stages, decrease with every scored round; and a user who
\* keeps selecting, confirming and advancing empties the candidate pool.
C37_PlayTerminates ==
  /\ [][Confirms =>
          /\ \/ /\ stage \in Applicable(targetCode)
                /\ ~Done(progressByCode, targetCode, stage)
                /\ Done(progressByCode', targetCode, stage)
             \/ targetCode \notin failedCodes /\ targetCode \in failedCodes'
          /\ RoundsLeft' < RoundsLeft]_vars
  /\ [](RoundsLeft <= TotalStages /\ (Loaded /\ RoundsLeft = 0 => CandidatePool = {}))
  /\ (Loaded ~> (Loaded /\ CandidatePool = {}))

\* C37 witness: the pool is empty after rounds that found one entity through
\* all three stages and failed the other.
C37_Witness ==
  /\ Loaded /\ CandidatePool = {} /\ reveal
  /\ foundCodes = {"FR"} /\ failedCodes = {"DE"}
  /\ flagsEnabled /\ capitalsEnabled

\* C38: a toggle change leaves targetCode, every Progress entry and failedCodes
\* as they were, and when the stage of the round is still applicable to the
\* target under the new toggles it leaves stage, selectedCode, reveal and
\* lastGuessCorrect as they were too.
C38_ToggleFrame ==
  [][\A f \in BOOLEAN, c \in BOOLEAN :
       WatchToggles(f, c) =>
         /\ targetCode' = targetCode
         /\ progressByCode' = progressByCode
         /\ failedCodes' = failedCodes
         /\ (targetCode = Null \/ stage \in StagesUnder(f, c, targetCode)) =>
              /\ stage' = stage /\ selectedCode' = selectedCode
              /\ reveal' = reveal /\ isCorrect' = isCorrect
  ]_vars

\* C38 witness: a revealed correct name round on a failed target whose flag
\* stage was answered before the flags toggle was switched off.
C38_Witness ==
  /\ targetCode # Null /\ reveal /\ isCorrect = "true" /\ stage = "name"
  /\ Done(progressByCode, targetCode, "flag") /\ ~flagsEnabled
  /\ targetCode \in failedCodes

\* A click handled by the adapter, whatever its source.
Clicks(source, code) ==
  CASE source = "outline" -> ClickOutline(code)
    [] source = "quick" -> HandleQuickSelect(code)
    [] OTHER -> ClickCapital(code)

\* C39: a click on an outline or a quick-select button is forwarded only on an
\* unrevealed round that is not on the capital stage, a click on a capital
\* marker only on an unrevealed round on the capital stage; a forwarded click
\* becomes the selection.
C39_ClickSourceMatchesStage ==
  [][\A code \in FeatureCodes \cup Codes :
       /\ (ClickOutline(code) \/ HandleQuickSelect(code)) =>
            /\ (stage = "capital" \/ reveal) => ~emitted'.forwarded
            /\ emitted'.forwarded => selectedCode' = code
       /\ ClickCapital(code) =>
            /\ (stage # "capital" \/ reveal) => ~emitted'.forwarded
            /\ emitted'.forwarded => selectedCode' = code
  ]_allVars

\* C39 witness: a click on a capital marker was forwarded on the capital stage
\* and is the selection.
C39_Witness ==
  /\ emitted.source = "capital" /\ emitted.forwarded
  /\ stage = "capital" /\ ~reveal /\ selectedCode = emitted.code
  /\ geoLayer.built /\ targetCode \in geoLayer.clickable

\* C40: no click, whatever its source, is forwarded for a code that is in
\* foundCodes or failedCodes at the time of the click.
C40_NoSelectionOfSettledCode ==
  [][\A source \in {"outline", "quick", "capital"} : \A code \in FeatureCodes \cup Codes :
       (Clicks(source, code) /\ code \in foundCodes \cup failedCodes) => ~emitted'.forwarded
  ]_allVars
====
